---- MODULE Spec2Model ----
(***************************************************************************)
(* Model of the paginated list crawler of parse_web.py: load_html (the     *)
(* page fetcher with its retry loop), extract_shops (the record            *)
(* extractor), get_next_page_url (the pagination resolver) and main (the   *)
(* crawl driver and the CSV sink).                                         *)
(*                                                                         *)
(* Texts are sequences of chunks: a chunk is either a whitespace chunk     *)
(* (" " or "nbsp", the no-break space U+00A0 that Python's str.strip       *)
(* removes) or a chunk that begins and ends with a non-whitespace          *)
(* character.  Non-ASCII literals of the source are written in ASCII:      *)
(* "Y35" is the price token of 35 yuan, "<dun>" is the separator U+3001.   *)
(* Durations are in tenths of a second.                                    *)
(***************************************************************************)
EXTENDS Integers, Sequences, FiniteSets, TLC

VARIABLES
    site,         \* the remote site: URL -> page served with HTTP 200
    seed,         \* args.url
    max_pages,    \* args.max_pages
    sleep_arg,    \* args.sleep, tenths of a second
    pc,           \* position of main: start, loop, attempt, emit, done, failed
    current_url,  \* main: current_url
    prev_url,     \* main: prev_url (unbound until line 142 runs)
    next_url,     \* main: next_url (unbound until line 143 runs)
    page_index,   \* main: page_index
    referer,      \* main: referer handed to load_html
    attempt,      \* load_html: loop variable of range(3)
    last_err,     \* load_html: last_err
    html_text,    \* main: html_text, the body load_html returned
    shops,        \* main: records of the page not yet written
    sink,         \* rows written to the CSV file, in order
    error,        \* the exception that ended main, NoError while none
    gets,         \* log of the GET requests issued (sess.get calls)
    sleeps,       \* log of the time.sleep calls
    mode,         \* which program runs: crawl, extract, refine, app
    arg,          \* the input of the function or request that runs
    result,       \* what it returned (NotRun before it has run)
    cat_files,    \* app.py: category key -> rows of its CSV file
    weights_file, \* app.py: content of weights.json
    decisions     \* app.py: rows of decisions.csv

\* the state of the crawler
crawl_vars == <<site, seed, max_pages, sleep_arg, pc, current_url, prev_url,
                next_url, page_index, referer, attempt, last_err, html_text,
                shops, sink, error, gets, sleeps>>

\* the state of the other programs, which a crawl leaves alone
other_vars == <<mode, arg, result, cat_files, weights_file, decisions>>

vars == <<crawl_vars, other_vars>>

----------------------------------------------------------------------------
(* Bounds of the model *)

\* largest --max-pages value tried (0 = no limit)
MaxMaxPages == 2

\* pages after which a crawl is no longer followed by the model
MaxPageIndex == 3

\* longest list of <li> blocks handed to extract_shops on its own
MaxBlocks == 2

\* longest CSV file handed to refine
MaxRows == 2

\* longest category file the serving layer starts with
MaxCatRows == 2

\* confirmations after which the decisions log is no longer followed
MaxDecisions == 2

\* largest weight handed to choose_category_by_weights on its own
MaxWeight == 2

----------------------------------------------------------------------------
(* URLs and urljoin *)

URL(s, h, p) == [scheme |-> s, host |-> h, path |-> p]

EmptyURL == URL("", "", "")

\* value of a local variable that was never assigned
Unbound == URL("<unbound>", "", "")

\* the absence signal of get_next_page_url
NoneURL == URL("<None>", "", "")

BaseOrigin == URL("https", "www.dianping.com", "/")

Dp(p) == URL("https", "www.dianping.com", p)

\* url.lower().startswith('http://') or url.lower().startswith('https://')
IsHttp(u) == u.scheme \in {"http", "https"}

\* urllib.parse.urljoin for an absolute href, a protocol-relative href
\* (//host/path), a root-relative href (/path) and the empty href
urljoin(base, href) ==
    IF href.scheme # "" THEN href
    ELSE IF href.host # "" THEN URL(base.scheme, href.host, href.path)
    ELSE IF href.path # "" THEN URL(base.scheme, base.host, href.path)
    ELSE base

----------------------------------------------------------------------------
(* Texts *)

Whitespace == {" ", "nbsp"}

RECURSIVE lstrip(_)
lstrip(t) ==
    IF t = <<>> THEN <<>>
    ELSE IF Head(t) \in Whitespace THEN lstrip(Tail(t))
    ELSE t

RECURSIVE rstrip(_)
rstrip(t) ==
    IF t = <<>> THEN <<>>
    ELSE IF t[Len(t)] \in Whitespace THEN rstrip(SubSeq(t, 1, Len(t) - 1))
    ELSE t

\* str.strip()
strip(t) == rstrip(lstrip(t))

\* the separator of line 133
Sep == "<dun>"

\* Sep.join(texts)
RECURSIVE join(_)
join(ts) ==
    IF ts = <<>> THEN <<>>
    ELSE IF Len(ts) = 1 THEN ts[1]
    ELSE ts[1] \o <<Sep>> \o join(Tail(ts))

\* [f(x) for x in s if keep(x)] helpers over sequences
RECURSIVE StripNonEmpty(_)
StripNonEmpty(ts) ==
    IF ts = <<>> THEN <<>>
    ELSE IF strip(Head(ts)) # <<>>
         THEN <<strip(Head(ts))>> \o StripNonEmpty(Tail(ts))
         ELSE StripNonEmpty(Tail(ts))

----------------------------------------------------------------------------
(* Pages: what etree.HTML and the XPath queries of the source see *)

\* one <li>: hasH4 is li[.//h4]; h4text the text nodes of .//h4/text();
\* price the text nodes of the mean-price <b>; dishes the text nodes of the
\* recommend-click anchors
Li(hasH4, h4text, price, dishes) ==
    [hasH4 |-> hasH4, h4text |-> h4text, price |-> price, dishes |-> dishes]

\* a body: sig is whether it contains the identity-verification signature,
\* tree whether etree.HTML gives a document (not None), hrefs the @href of
\* the anchors matching the next-page XPath, in document order
Page(sig, tree, lis, hrefs) ==
    [sig |-> sig, tree |-> tree, lis |-> lis, hrefs |-> hrefs]

NoPage == Page(FALSE, FALSE, <<>>, <<>>)

\* the interstitial served to a rejected session; it has a list block too
ChallengePage ==
    Page(TRUE, TRUE,
         <<Li(TRUE, << <<"verify">> >>, <<>>, <<>>)>>,
         <<>>)

\* '<sig>' in text
HasSignature(text) == text.sig

----------------------------------------------------------------------------
(* extract_shops *)

Record(name, avg_price, dishes) ==
    [name |-> name, avg_price |-> avg_price, recommended_dishes |-> dishes]

\* ExtractFrom with a block that has no price marker skipped
RECURSIVE ExtractFrom_SkipUnpriced(_)
ExtractFrom_SkipUnpriced(lis) ==
    IF lis = <<>> THEN <<>>
    ELSE LET li == Head(lis)
             rest == ExtractFrom_SkipUnpriced(Tail(lis))
         IN  IF ~li.hasH4 THEN rest
             ELSE IF li.h4text = <<>> \/ li.price = <<>> THEN rest
             ELSE <<Record(strip(li.h4text[1]), strip(li.price[1]),
                           StripNonEmpty(li.dishes))>> \o rest

\* the body of the for loop over the candidate blocks, lines 23-41
RECURSIVE ExtractFrom(_)
ExtractFrom(lis) ==
    IF lis = <<>> THEN <<>>
    ELSE LET li == Head(lis)
             rest == ExtractFrom(Tail(lis))
         IN  IF ~li.hasH4 THEN rest
             ELSE IF li.h4text = <<>> THEN rest
             ELSE <<Record(strip(li.h4text[1]),
                           IF li.price # <<>> THEN strip(li.price[1]) ELSE <<>>,
                           StripNonEmpty(li.dishes))>> \o rest

extract_shops(text) ==
    IF ~text.tree THEN <<>> ELSE ExtractFrom(text.lis)

----------------------------------------------------------------------------
(* get_next_page_url *)

get_next_page_url(document, url) ==
    IF document.hrefs = <<>> THEN NoneURL
    ELSE urljoin(url, document.hrefs[1])

----------------------------------------------------------------------------
(* The sites crawled and the seeds given *)

ShopA == Li(TRUE, << <<"Shop A">> >>, << <<"Y35">> >>, << <<"Dish1">>, <<"Dish2">> >>)
ShopB == Li(TRUE, << <<"Shop B">> >>, <<>>, <<>>)
ShopC == Li(TRUE, << <<"Shop C">> >>, << <<"Y50">> >>, << <<"Dish3">> >>)

\* a heading that holds only a no-break space (<h4>&nbsp;</h4>)
BlankLi == Li(TRUE, << <<"nbsp">> >>, << <<"Y20">> >>, <<>>)
\* an <li> with no <h4> below it
PlainLi == Li(FALSE, <<>>, << <<"Y22">> >>, << <<"Dish9">> >>)
\* an <h4> whose text sits in a child element, so that h4/text() is empty
WrappedLi == Li(TRUE, <<>>, << <<"Y24">> >>, <<>>)
\* texts padded with whitespace, and a dish anchor with blank text
PaddedLi ==
    Li(TRUE, << <<" ", "Shop D", " ">> >>, << <<" ", "Y28">> >>,
       << <<" ">>, <<"Dish4", " ">>, <<"Dish5">> >>)

Rel(p) == URL("", "", p)

\* the end-to-end site: /page1 -> /page2
SiteE2E ==
    (Dp("/page1") :> Page(FALSE, TRUE, <<ShopA, ShopB>>, <<Rel("/page2")>>))
    @@ (Dp("/page2") :> Page(FALSE, TRUE, <<ShopC>>, <<>>))

\* one page of malformed blocks whose next link is the empty href (itself)
SiteBlank ==
    (Dp("/list") :>
        Page(FALSE, TRUE, <<BlankLi, PlainLi, WrappedLi, PaddedLi>>, <<Rel("")>>))

\* two pages whose next links form a cycle; one link is absolute, the other
\* protocol-relative
SiteCycle ==
    (Dp("/a") :> Page(FALSE, TRUE, <<ShopA>>, <<Dp("/b"), Rel("/a")>>))
    @@ (Dp("/b") :> Page(FALSE, TRUE, <<ShopB>>,
                         <<URL("", "www.dianping.com", "/a")>>))

\* three pages; the last body gives no document (etree.HTML returns None)
SiteChain ==
    (Dp("/p1") :> Page(FALSE, TRUE, <<ShopC>>, <<Rel("/p2")>>))
    @@ (Dp("/p2") :> Page(FALSE, TRUE, <<>>, <<Rel("/p3")>>))
    @@ (Dp("/p3") :> Page(FALSE, FALSE, <<>>, <<>>))

\* a page whose next anchor is a javascript: pseudo link
SiteScript ==
    (Dp("/j1") :> Page(FALSE, TRUE, <<ShopB>>, <<URL("javascript", "", ";")>>))

Scenarios ==
    { [site |-> SiteE2E,    seed |-> Dp("/page1")],
      [site |-> SiteBlank,  seed |-> Dp("/list")],
      [site |-> SiteCycle,  seed |-> Dp("/a")],
      [site |-> SiteChain,  seed |-> Dp("/p1")],
      [site |-> SiteScript, seed |-> Dp("/j1")],
      [site |-> SiteE2E,    seed |-> EmptyURL] }

\* values of --sleep tried, tenths of a second
SleepArgs == {0, 5}

----------------------------------------------------------------------------
(* Responses and errors *)

Response(status, body, exc) == [status |-> status, body |-> body, exc |-> exc]

\* what one sess.get(url) can give: the page with 200, the challenge page
\* with 200, a 429, a 500, or a timeout raised by requests
Responses(url) ==
    (IF url \in DOMAIN site THEN {Response(200, site[url], "")} ELSE {})
    \cup { Response(200, ChallengePage, ""),
           Response(429, NoPage, ""),
           Response(500, NoPage, ""),
           Response(0, NoPage, "Timeout") }

NoError == [type |-> "none"]

\* line 82
CredentialError == [type |-> "RuntimeError", msg |-> "cookie invalid or stale"]

\* lines 84 and 86
HTTPError(status) ==
    [type |-> "HTTPError", status |-> status,
     msg |-> IF status \in {403, 429} THEN "Forbidden/Too Many Requests"
             ELSE "HTTP error"]

\* line 52
UrlError == [type |-> "ValueError", msg |-> "Only URL is supported"]

\* line 91
UnknownError == [type |-> "RuntimeError", msg |-> "Unknown error fetching page"]

\* line 129
GuardError == [type |-> "RuntimeError", msg |-> "Hit identity verification page"]

\* an exception raised inside sess.get
NetworkError(exc) == [type |-> exc]

----------------------------------------------------------------------------
(* load_html: the retry loop, one iteration per step *)

\* Attempts with one attempt too many
Attempts_Four == 3 + 1

\* range(3), line 76
Attempts == 3

\* the bound of "if attempt < 2", line 87
LastSleepBound == 2

\* 1.5 seconds and 1 second, in tenths of a second (line 88)
BackoffBase == 15
Second == 10

\* Backoff with the attempt index left out
Backoff_Flat(a) == BackoffBase

\* time.sleep(1.5 + attempt), line 88
Backoff(a) == BackoffBase + Second * a

\* lines 78-80: the response is returned to the caller
Usable(r) == r.status = 200 /\ ~HasSignature(r.body)

\* ErrorOf with the first error kept instead of the last
ErrorOf_KeepFirst(r) ==
    IF last_err # NoError THEN last_err
    ELSE IF r.status = 200 THEN CredentialError ELSE HTTPError(r.status)

\* lines 82-86: the error remembered for a response that is not returned
ErrorOf(r) ==
    IF r.status = 200 THEN CredentialError ELSE HTTPError(r.status)

\* line 87
SleepsAfter(a) == a < LastSleepBound

\* lines 89-91
RaisedAfterLoop(e) == IF e # NoError THEN e ELSE UnknownError

\* RefererOf with the page being fetched in place of the previous one
RefererOf_Current(idx) == IF idx = 1 THEN BaseOrigin ELSE current_url

\* line 125: the referer of page number idx
RefererOf(idx) == IF idx = 1 THEN BaseOrigin ELSE prev_url

\* line 72: headers['Referer'] = referer or 'https://www.dianping.com/'
RefererHeader(ref) == IF ref \in {EmptyURL, NoneURL} THEN BaseOrigin ELSE ref

GetEntry(r) ==
    [page |-> page_index, attempt |-> attempt, url |-> current_url,
     referer |-> RefererHeader(referer), status |-> r.status, sig |-> HasSignature(r.body),
     exc |-> r.exc]

SleepEntry(kind, a, d) ==
    [kind |-> kind, page |-> page_index, attempt |-> a, d |-> d]

----------------------------------------------------------------------------
(* main: the sink *)

\* Header with the price column under another name
Header_AveragePrice == << <<"name">>, <<"average_price">>, <<"recommended_dishes">> >>

\* line 120
Header == << <<"name">>, <<"avg_price">>, <<"recommended_dishes">> >>

HeaderRow == [kind |-> "header", page |-> 0, cells |-> Header]

\* lines 133-134
Row(s) ==
    [kind |-> "data", page |-> page_index,
     cells |-> <<s.name, s.avg_price,
                 IF s.recommended_dishes # <<>> THEN join(s.recommended_dishes)
                 ELSE <<>> >>]

\* ReachedMaxPages with the comparison off by one
ReachedMaxPages_OffByOne == max_pages # 0 /\ page_index > max_pages

\* line 136
ReachedMaxPages == max_pages # 0 /\ page_index >= max_pages

\* NoNextPage without the comparison with the current URL
NoNextPage_NoSelfCheck(n, cur) == n = NoneURL \/ n = EmptyURL

\* line 144
NoNextPage(n, cur) == n = NoneURL \/ n = EmptyURL \/ n = cur

----------------------------------------------------------------------------
(* The state machine *)

\* the value of result before anything has run
NotRun == [none |-> TRUE]

\* what a finished call left in result
Returned(v) == [value |-> v]

\* the other programs are not running
OthersIdle ==
    /\ arg = NotRun
    /\ result = NotRun
    /\ cat_files = <<>>
    /\ weights_file = NotRun
    /\ decisions = <<>>

Init ==
    /\ mode = "crawl"
    /\ OthersIdle
    /\ \E sc \in Scenarios : site = sc.site /\ seed = sc.seed
    /\ max_pages \in 0..MaxMaxPages
    /\ sleep_arg \in SleepArgs
    /\ pc = "start"
    /\ current_url = Unbound
    /\ prev_url = Unbound
    /\ next_url = Unbound
    /\ page_index = 0
    /\ referer = Unbound
    /\ attempt = 0
    /\ last_err = NoError
    /\ html_text = NoPage
    /\ shops = <<>>
    /\ sink = <<>>
    /\ error = NoError
    /\ gets = <<>>
    /\ sleeps = <<>>

\* lines 113-120: the session, the variables and the header row
Open ==
    /\ pc = "start"
    /\ current_url' = seed
    /\ page_index' = 0
    /\ sink' = <<HeaderRow>>
    /\ pc' = "loop"
    /\ UNCHANGED <<other_vars, site, seed, max_pages, sleep_arg, prev_url, next_url, referer,
                   attempt, last_err, html_text, shops, error, gets, sleeps>>

\* LoopEnter with the output file opened again, in 'w' mode, for every page
LoopEnter_Reopen ==
    /\ pc = "loop"
    /\ page_index < MaxPageIndex
    /\ IF current_url = EmptyURL
       THEN /\ pc' = "done"
            /\ UNCHANGED <<page_index, referer, attempt, last_err, error, sink>>
       ELSE /\ page_index' = page_index + 1
            /\ referer' = RefererOf(page_index')
            /\ sink' = <<HeaderRow>>
            /\ IF IsHttp(current_url)
               THEN /\ pc' = "attempt"
                    /\ attempt' = 0
                    /\ last_err' = NoError
                    /\ error' = error
               ELSE /\ pc' = "failed"
                    /\ error' = UrlError
                    /\ UNCHANGED <<attempt, last_err>>
    /\ UNCHANGED <<other_vars, site, seed, max_pages, sleep_arg, current_url,
                   prev_url, next_url, html_text, shops, gets, sleeps>>

\* lines 122-126 and 51-75: the loop test, the referer, the entry of load_html
LoopEnter ==
    /\ pc = "loop"
    /\ page_index < MaxPageIndex
    /\ IF current_url = EmptyURL
       THEN /\ pc' = "done"
            /\ UNCHANGED <<page_index, referer, attempt, last_err, error>>
       ELSE /\ page_index' = page_index + 1
            /\ referer' = RefererOf(page_index')
            /\ IF IsHttp(current_url)
               THEN /\ pc' = "attempt"
                    /\ attempt' = 0
                    /\ last_err' = NoError
                    /\ error' = error
               ELSE /\ pc' = "failed"
                    /\ error' = UrlError
                    /\ UNCHANGED <<attempt, last_err>>
    /\ UNCHANGED <<other_vars, site, seed, max_pages, sleep_arg, current_url, prev_url,
                   next_url, html_text, shops, sink, gets, sleeps>>

\* lines 76-91 and 126-131: one iteration of the retry loop with response r,
\* up to the return into main (which extracts the records) or the raise
Attempt(r) ==
    /\ pc = "attempt"
    /\ gets' = Append(gets, GetEntry(r))
    /\ IF r.exc # ""
       THEN \* sess.get raised: nothing in load_html or main catches it
            /\ pc' = "failed"
            /\ error' = NetworkError(r.exc)
            /\ UNCHANGED <<attempt, last_err, html_text, shops, sleeps>>
       ELSE IF Usable(r)
       THEN /\ html_text' = r.body
            /\ IF HasSignature(r.body)
               THEN /\ pc' = "failed"
                    /\ error' = GuardError
                    /\ shops' = shops
               ELSE /\ pc' = "emit"
                    /\ error' = error
                    /\ shops' = extract_shops(r.body)
            /\ UNCHANGED <<attempt, last_err, sleeps>>
       ELSE /\ last_err' = ErrorOf(r)
            /\ sleeps' = IF SleepsAfter(attempt)
                         THEN Append(sleeps, SleepEntry("backoff", attempt, Backoff(attempt)))
                         ELSE sleeps
            /\ IF attempt + 1 < Attempts
               THEN /\ attempt' = attempt + 1
                    /\ pc' = "attempt"
                    /\ error' = error
               ELSE /\ attempt' = attempt
                    /\ pc' = "failed"
                    /\ error' = RaisedAfterLoop(last_err')
            /\ UNCHANGED <<html_text, shops>>
    /\ UNCHANGED <<other_vars, site, seed, max_pages, sleep_arg, current_url, prev_url,
                   next_url, page_index, referer, sink>>

Fetch == \E r \in Responses(current_url) : Attempt(r)

\* WriteRow taking the records from the end of the list
WriteRow_Last ==
    /\ pc = "emit"
    /\ shops # <<>>
    /\ sink' = Append(sink, Row(shops[Len(shops)]))
    /\ shops' = SubSeq(shops, 1, Len(shops) - 1)
    /\ UNCHANGED <<other_vars, site, seed, max_pages, sleep_arg, pc, current_url,
                   prev_url, next_url, page_index, referer, attempt, last_err,
                   html_text, error, gets, sleeps>>

\* lines 132-134: one record is written
WriteRow ==
    /\ pc = "emit"
    /\ shops # <<>>
    /\ sink' = Append(sink, Row(Head(shops)))
    /\ shops' = Tail(shops)
    /\ UNCHANGED <<other_vars, site, seed, max_pages, sleep_arg, pc, current_url, prev_url,
                   next_url, page_index, referer, attempt, last_err, html_text,
                   error, gets, sleeps>>

\* lines 136-148: the page limit, the next link, the inter-page sleep
Advance ==
    /\ pc = "emit"
    /\ shops = <<>>
    /\ IF ReachedMaxPages \/ ~html_text.tree
       THEN /\ pc' = "done"
            /\ UNCHANGED <<current_url, prev_url, next_url, sleeps>>
       ELSE /\ prev_url' = current_url
            /\ next_url' = get_next_page_url(html_text, current_url)
            /\ IF NoNextPage(next_url', current_url)
               THEN /\ pc' = "done"
                    /\ UNCHANGED <<current_url, sleeps>>
               ELSE /\ current_url' = next_url'
                    /\ sleeps' = IF sleep_arg > 0
                                 THEN Append(sleeps, SleepEntry("page", 0, sleep_arg))
                                 ELSE sleeps
                    /\ pc' = "loop"
    /\ UNCHANGED <<other_vars, site, seed, max_pages, sleep_arg, page_index, referer, attempt,
                   last_err, html_text, shops, sink, error, gets>>

Next == Open \/ LoopEnter \/ Fetch \/ WriteRow \/ Advance

Spec == Init /\ [][Next]_vars

----------------------------------------------------------------------------
(* Helpers of the properties *)

\* the 200 response whose body carries the challenge signature
IsChallenge(g) == g.exc = "" /\ g.status = 200 /\ g.sig

\* the 200 response load_html hands back
IsUsable(g) == g.exc = "" /\ g.status = 200 /\ ~g.sig

GetsOf(k) == {i \in DOMAIN gets : gets[i].page = k}

BackoffsOf(k) ==
    {j \in DOMAIN sleeps : sleeps[j].kind = "backoff" /\ sleeps[j].page = k}

HasBackoff(k, a) == \E j \in BackoffsOf(k) : sleeps[j].attempt = a

RECURSIVE SumD(_)
SumD(js) ==
    IF js = {} THEN 0
    ELSE LET j == CHOOSE x \in js : TRUE IN sleeps[j].d + SumD(js \ {j})

BackoffTotal(k) == SumD(BackoffsOf(k))

DataRows == {i \in DOMAIN sink : sink[i].kind = "data"}

Cells == [i \in DOMAIN sink |-> sink[i].cells]

\* the statuses answered to the GETs of page k, Timeout for a raised one
StatusesOf(k) ==
    LET is == GetsOf(k)
        first == IF is = {} THEN 0 ELSE CHOOSE i \in is : \A j \in is : i <= j
    IN  [n \in 1..Cardinality(is) |->
            LET g == gets[first + n - 1]
            IN  IF g.exc # "" THEN "raised"
                ELSE IF IsChallenge(g) THEN "challenge"
                ELSE IF IsUsable(g) THEN "ok"
                ELSE IF g.status = 429 THEN "429" ELSE "other"]

----------------------------------------------------------------------------
(* C1: in load_html, a 200 response whose body has the challenge signature *)
(* stops fetching at once: it is the last GET, no backoff sleep follows    *)
(* it, and the crawl has failed with the credential error; on the first    *)
(* attempt of the seed page that means one GET and no data row.            *)
C1_ChallengeStopsFetching ==
    \A i \in DOMAIN gets :
        IsChallenge(gets[i]) =>
            /\ i = Len(gets)
            /\ ~HasBackoff(gets[i].page, gets[i].attempt)
            /\ pc = "failed"
            /\ error = CredentialError
            /\ (gets[i].page = 1 /\ gets[i].attempt = 0)
                   => (Len(gets) = 1 /\ DataRows = {})

(* C2: a network-level failure of one attempt (a timeout raised by the     *)
(* GET) is retried with backoff like an HTTP failure: a raised attempt     *)
(* before the cap is followed by its backoff sleep, and the fetch fails on *)
(* a raised attempt only when that attempt was the last of the three.      *)
C2_NetworkFailureRetried ==
    \A i \in DOMAIN gets :
        gets[i].exc # "" =>
            /\ (gets[i].attempt + 1 < Attempts)
                   => HasBackoff(gets[i].page, gets[i].attempt)
            /\ (pc = "failed" /\ i = Len(gets))
                   => gets[i].attempt = Attempts - 1

(* C3: with max_pages > 0 no more than max_pages pages are fetched or      *)
(* emitted; once page_index has reached max_pages the driver never goes    *)
(* back to the loop head and has not resolved a next link for that page    *)
(* (next_url is still what it was when the page was entered).              *)
C3_PageLimit ==
    max_pages > 0 =>
        /\ page_index <= max_pages
        /\ \A i \in DOMAIN gets : gets[i].page <= max_pages
        /\ \A i \in DOMAIN sink : sink[i].page <= max_pages
        /\ page_index >= max_pages =>
              /\ pc \in {"attempt", "emit", "done", "failed"}
              /\ next_url = IF page_index = 1 THEN Unbound ELSE current_url
              /\ (page_index = 1) => prev_url = Unbound

\* the limit stopped a crawl whose last page links to another page of the site
C3_Witness ==
    /\ pc = "done"
    /\ max_pages > 0
    /\ page_index = max_pages
    /\ error = NoError
    /\ html_text.hrefs # <<>>
    /\ urljoin(current_url, html_text.hrefs[1]) \in DOMAIN site \ {current_url}

(* C4: the end-to-end scenario (seed /page1 with Shop A and Shop B and a   *)
(* next link to /page2, /page2 with Shop C and no next link, max_pages =   *)
(* 0): a crawl that terminates normally has written the header and the     *)
(* three rows in order and has processed exactly 2 pages.                  *)
C4_EndToEnd ==
    (site = SiteE2E /\ seed = Dp("/page1") /\ max_pages = 0 /\ pc = "done") =>
        /\ Cells = << Header,
                      << <<"Shop A">>, <<"Y35">>, <<"Dish1", "<dun>", "Dish2">> >>,
                      << <<"Shop B">>, <<>>, <<>> >>,
                      << <<"Shop C">>, <<"Y50">>, <<"Dish3">> >> >>
        /\ page_index = 2
        /\ {gets[i].page : i \in DOMAIN gets} = {1, 2}
        /\ error = NoError

C4_Witness ==
    /\ site = SiteE2E /\ seed = Dp("/page1") /\ max_pages = 0 /\ pc = "done"
    /\ Len(sink) = 4

(* C5 (as amended): in every run the sink receives the three-column header *)
(* name, avg_price, recommended_dishes exactly once, before every data row. *)
C5_HeaderOnceFirst ==
    IF pc = "start" THEN sink = <<>>
    ELSE /\ sink # <<>>
         /\ sink[1].kind = "header"
         /\ sink[1].cells = << <<"name">>, <<"avg_price">>, <<"recommended_dishes">> >>
         /\ \A i \in DOMAIN sink : i > 1 => sink[i].kind = "data"

(* C5 (as stated): the header's column names are name, average_price,      *)
(* recommended_dishes, written exactly once before every data row.         *)
C5_HeaderAveragePrice ==
    IF pc = "start" THEN sink = <<>>
    ELSE /\ sink # <<>>
         /\ sink[1].kind = "header"
         /\ sink[1].cells = << <<"name">>, <<"average_price">>, <<"recommended_dishes">> >>
         /\ \A i \in DOMAIN sink : i > 1 => sink[i].kind = "data"

\* a finished crawl of two pages with data rows after the header
C5_Witness ==
    /\ pc = "done"
    /\ page_index = 2
    /\ Cardinality(DataRows) >= 2

(* C6: no record with a name that is empty after trimming is produced, so  *)
(* no data row with an empty name is ever written to the sink.             *)
C6_NoEmptyName ==
    /\ \A i \in DOMAIN shops : strip(shops[i].name) # <<>>
    /\ \A i \in DataRows : strip(sink[i].cells[1]) # <<>>

(* C7: a challenge signature on any fetched page halts the crawl with a    *)
(* credential-rejection error and no record of that page is emitted.       *)
C7_ChallengeHaltsCrawl ==
    \A i \in DOMAIN gets :
        IsChallenge(gets[i]) =>
            /\ pc = "failed"
            /\ error \in {CredentialError, GuardError}
            /\ \A j \in DataRows : sink[j].page # gets[i].page

(* C8: the failure surfaced to the caller carries the terminal error and   *)
(* the count of pages and of records processed before the failure.         *)
C8_FailureCarriesCounts ==
    pc = "failed" =>
        /\ error # NoError
        /\ "pages" \in DOMAIN error
        /\ "records" \in DOMAIN error
        /\ error.pages = page_index - 1
        /\ error.records = Cardinality(DataRows)

(* C9: one call of load_html issues at most 3 GETs, and a 200 response     *)
(* without the signature is returned at once: it is the last GET of its    *)
(* page and its body is the text main works on.                            *)
C9_AtMostThreeGets ==
    /\ \A k \in 1..page_index : Cardinality(GetsOf(k)) <= 3
    /\ \A i \in DOMAIN gets :
          IsUsable(gets[i]) =>
              /\ \A j \in DOMAIN gets : j > i => gets[j].page > gets[i].page
              /\ gets[i].page = page_index =>
                    /\ pc \in {"emit", "loop", "done"}
                    /\ html_text = site[gets[i].url]

\* a page took all three attempts and the third was returned
C9_Witness ==
    /\ pc = "done"
    /\ \E k \in 1..page_index :
          /\ Cardinality(GetsOf(k)) = 3
          /\ \E i \in GetsOf(k) : IsUsable(gets[i]) /\ gets[i].attempt = 2
    /\ \E k \in 1..page_index : Cardinality(GetsOf(k)) = 1

(* C10: a backoff sleep follows a failed attempt i exactly when i < 2, it  *)
(* lasts 1.5 + i seconds and the next attempt follows it; for the          *)
(* responses 429, 429, 200 the third response is used and the backoff      *)
(* adds up to 4.0 seconds.                                                 *)
C10_BackoffSchedule ==
    /\ \A j \in DOMAIN sleeps :
          sleeps[j].kind = "backoff" =>
              LET k == sleeps[j].page
                  a == sleeps[j].attempt
              IN  /\ a \in {0, 1}
                  /\ sleeps[j].d = 15 + 10 * a
                  /\ \E i \in GetsOf(k) :
                        gets[i].attempt = a /\ ~IsUsable(gets[i]) /\ gets[i].exc = ""
                  /\ \/ \E i \in GetsOf(k) : gets[i].attempt = a + 1
                     \/ pc = "attempt" /\ page_index = k /\ attempt = a + 1
    /\ \A i \in DOMAIN gets :
          (~IsUsable(gets[i]) /\ gets[i].exc = "") =>
              (HasBackoff(gets[i].page, gets[i].attempt) <=> gets[i].attempt < 2)
    /\ \A k \in 1..page_index :
          /\ Cardinality(BackoffsOf(k)) <= 2
          /\ StatusesOf(k) = <<"429", "429", "ok">> =>
                /\ BackoffTotal(k) = 40
                /\ k = page_index =>
                      /\ pc \in {"emit", "loop", "done"}
                      /\ \E i \in GetsOf(k) :
                            gets[i].attempt = 2 /\ html_text = site[gets[i].url]

\* the seed page answered 429, 429, 200 and the crawl went on to finish
C10_Witness ==
    /\ pc = "done"
    /\ StatusesOf(1) = <<"429", "429", "ok">>
    /\ BackoffTotal(1) = 40
    /\ DataRows # {}

----------------------------------------------------------------------------
(* Helpers of the properties of sequencing *)

\* the error one GET leaves behind when it is the last of its call
ErrorOfGet(g) ==
    IF g.exc # "" THEN [type |-> g.exc]
    ELSE IF g.status = 200
         THEN [type |-> "RuntimeError", msg |-> "cookie invalid or stale"]
         ELSE [type |-> "HTTPError", status |-> g.status,
               msg |-> IF g.status = 429 THEN "Forbidden/Too Many Requests"
                       ELSE "HTTP error"]

LastGetOf(k) == CHOOSE i \in GetsOf(k) : \A j \in GetsOf(k) : j <= i

\* the call of load_html for page k has returned or raised
CallEnded(k) == k < page_index \/ (k = page_index /\ pc # "attempt")

CellsOf(rec) == <<rec.name, rec.avg_price, join(rec.recommended_dishes)>>

RECURSIVE CellsOfAll(_)
CellsOfAll(recs) ==
    IF recs = <<>> THEN <<>> ELSE <<CellsOf(Head(recs))>> \o CellsOfAll(Tail(recs))

\* the body returned for page k, NoPage when none was
BodyOf(k) ==
    IF \E i \in GetsOf(k) : IsUsable(gets[i])
    THEN site[gets[CHOOSE i \in GetsOf(k) : IsUsable(gets[i])].url]
    ELSE NoPage

\* the rows of pages 1..k, page after page, each in document order
RECURSIVE ExpectedCells(_)
ExpectedCells(k) ==
    IF k <= 0 THEN <<>>
    ELSE ExpectedCells(k - 1) \o CellsOfAll(extract_shops(BodyOf(k)))

DataCells == [i \in 1..(Len(sink) - 1) |-> sink[i + 1].cells]

----------------------------------------------------------------------------
(* C11: load_html fails exactly when none of the attempts it made gave a  *)
(* usable 200 response, and the error raised is the one of the last       *)
(* attempt made, not of an earlier one.                                    *)
C11_FailsWithLastError ==
    \A k \in 1..page_index :
        (GetsOf(k) # {} /\ CallEnded(k)) =>
            /\ (pc = "failed" /\ k = page_index)
                   <=> ~\E i \in GetsOf(k) : IsUsable(gets[i])
            /\ (pc = "failed" /\ k = page_index)
                   => error = ErrorOfGet(gets[LastGetOf(k)])

\* three attempts with three different errors, the last a 500
C11_Witness ==
    /\ pc = "failed"
    /\ StatusesOf(page_index) = <<"429", "challenge", "other">>
    /\ error.type = "HTTPError"

(* C12: every request for the first page carries the base origin as       *)
(* Referer, every request for page k > 1 carries the URL of page k - 1,    *)
(* and prev_url is bound whenever it is read.                              *)
C12_RefererChain ==
    /\ \A i \in DOMAIN gets :
          /\ gets[i].referer # Unbound
          /\ gets[i].page = 1 => gets[i].referer = BaseOrigin
          /\ gets[i].page > 1 =>
                /\ GetsOf(gets[i].page - 1) # {}
                /\ \A j \in GetsOf(gets[i].page - 1) : gets[i].referer = gets[j].url
    /\ page_index > 1 => prev_url # Unbound
    /\ (pc = "loop" /\ page_index >= 1) => prev_url # Unbound

\* the third page was asked for twice, after the second
C12_Witness ==
    /\ Cardinality(GetsOf(3)) >= 2
    /\ \E i \in GetsOf(3) : gets[i].referer = Dp("/p2")

(* C13: the driver never fetches the URL it fetched immediately before:    *)
(* after a page with no next-link candidate, or whose resolved next URL is *)
(* its own URL, the crawl ends normally and no further request is issued.  *)
C13_NoImmediateRevisit ==
    /\ \A i \in DOMAIN gets : \A j \in DOMAIN gets :
          gets[j].page = gets[i].page + 1 => gets[j].url # gets[i].url
    /\ \A i \in DOMAIN gets :
          (/\ IsUsable(gets[i])
           /\ \/ site[gets[i].url].hrefs = <<>>
              \/ urljoin(gets[i].url, site[gets[i].url].hrefs[1]) = gets[i].url) =>
              /\ i = Len(gets)
              /\ page_index = gets[i].page
              /\ pc \in {"emit", "done"}
              /\ error = NoError

\* a page whose next link resolves to itself ended the crawl
C13_Witness ==
    /\ pc = "done"
    /\ max_pages = 0
    /\ html_text.hrefs # <<>>
    /\ urljoin(current_url, html_text.hrefs[1]) = current_url
    /\ gets # <<>>

(* C14: when the crawl fails while fetching page k, the sink holds exactly *)
(* the header and the records of pages 1..k-1 in order, and no record of   *)
(* page k.                                                                 *)
C14_PartialOutputKept ==
    pc = "failed" =>
        /\ Cells = <<Header>> \o ExpectedCells(page_index - 1)
        /\ \A i \in DataRows : sink[i].page < page_index

\* the second page failed after the first page's two rows were written
C14_Witness ==
    /\ pc = "failed"
    /\ page_index = 2
    /\ Cardinality(DataRows) = 2
    /\ GetsOf(2) # {}

(* C17: the crawl is sequential and keeps the order: a GET is issued only  *)
(* when every record of the pages before is written, and the data rows     *)
(* together with the records still to write are the records of the pages   *)
(* in page order, each page in document order.                             *)
C17_Order ==
    /\ DataCells \o CellsOfAll(shops) = ExpectedCells(page_index)
    /\ shops # <<>> => pc = "emit"
    /\ \A i \in DataRows : \A j \in DataRows : i < j => sink[i].page <= sink[j].page

C17_BeforeGet ==
    gets' # gets =>
        /\ shops = <<>>
        /\ DataCells = ExpectedCells(page_index - 1)
        /\ sink' = sink

C17_Sequential == [](pc # "start" => C17_Order) /\ [][C17_BeforeGet]_vars

\* two pages written, the first of them with two records
C17_Witness ==
    /\ pc = "done"
    /\ page_index = 2
    /\ Len(sink) = 4
    /\ sink[2].page = 1 /\ sink[3].page = 1 /\ sink[4].page = 2

----------------------------------------------------------------------------
(* The crawl of a site where every fetch succeeds at once *)

\* lines 76-81 when the server answers 200 with the page
FetchOk == \E r \in Responses(current_url) : Usable(r) /\ Attempt(r)

LiveNext == Open \/ LoopEnter \/ FetchOk \/ WriteRow \/ Advance

\* main is one thread that runs on whenever it can take a step
SpecLive == Init /\ [][LiveNext]_vars /\ WF_vars(LiveNext)

\* where following the next links from u leads: "ends" at a page with no
\* next link or a link to itself, "cycle" back to a page in seen, or
\* "unserved" to a URL the site does not serve
RECURSIVE Walk(_, _)
Walk(u, seen) ==
    IF u \notin DOMAIN site THEN "unserved"
    ELSE LET n == IF site[u].tree /\ site[u].hrefs # <<>>
                  THEN urljoin(u, site[u].hrefs[1])
                  ELSE NoneURL
         IN  IF n = NoneURL \/ n = u THEN "ends"
             ELSE IF n \in seen \cup {u} THEN "cycle"
             ELSE Walk(n, seen \cup {u})

----------------------------------------------------------------------------
(* extract_shops on its own, over every short list of blocks *)

\* the crawler does not run
CrawlIdle ==
    /\ site = <<>>
    /\ seed = EmptyURL
    /\ max_pages = 0
    /\ sleep_arg = 0
    /\ pc = "off"
    /\ current_url = Unbound
    /\ prev_url = Unbound
    /\ next_url = Unbound
    /\ page_index = 0
    /\ referer = Unbound
    /\ attempt = 0
    /\ last_err = NoError
    /\ html_text = NoPage
    /\ shops = <<>>
    /\ sink = <<>>
    /\ error = NoError
    /\ gets = <<>>
    /\ sleeps = <<>>

LiUniverse == {ShopA, ShopB, BlankLi, PlainLi, WrappedLi, PaddedLi}

ExtractInputs ==
    { Page(FALSE, tree, lis, <<>>) :
        tree \in BOOLEAN,
        lis \in UNION {[1..n -> LiUniverse] : n \in 0..MaxBlocks} }

ExtractInit ==
    /\ mode = "extract"
    /\ CrawlIdle
    /\ arg \in ExtractInputs
    /\ result = NotRun
    /\ cat_files = <<>>
    /\ weights_file = NotRun
    /\ decisions = <<>>

\* lines 15-43: one call of extract_shops
ExtractCall ==
    /\ mode = "extract"
    /\ result = NotRun
    /\ result' = Returned(extract_shops(arg))
    /\ UNCHANGED <<crawl_vars, mode, arg, cat_files, weights_file, decisions>>

ExtractNext == ExtractCall

SpecExtract == ExtractInit /\ [][ExtractNext]_vars

\* the blocks of a page that have a heading with a text node
HasHeadingText(li) == li.hasH4 /\ li.h4text # <<>>

IsCandidate(li) == li.hasH4

(* C18: extract_shops is total: with no qualifying block the result is     *)
(* the empty sequence, a block without a heading is left out, a block with *)
(* a heading but no price and no recommend marker gives a record with the  *)
(* empty price and no dishes, and there are never more records than        *)
(* candidate blocks.                                                       *)
C18_ExtractTotal ==
    (mode = "extract" /\ result # NotRun) =>
        LET qual == IF arg.tree THEN SelectSeq(arg.lis, HasHeadingText) ELSE <<>>
            out  == result.value
        IN  /\ DOMAIN out = 1..Len(qual)
            /\ Len(out) <= Len(SelectSeq(arg.lis, IsCandidate))
            /\ SelectSeq(arg.lis, IsCandidate) = <<>> => out = <<>>
            /\ \A n \in 1..Len(qual) :
                  /\ DOMAIN out[n] = {"name", "avg_price", "recommended_dishes"}
                  /\ out[n].name = strip(qual[n].h4text[1])
                  /\ (qual[n].price = <<>> /\ qual[n].dishes = <<>>) =>
                        (out[n].avg_price = <<>> /\ out[n].recommended_dishes = <<>>)

\* a block without a heading is left out and Shop B comes out with empty fields
C18_Witness ==
    /\ mode = "extract"
    /\ arg.tree /\ arg.lis = <<PlainLi, ShopB>>
    /\ result = Returned(<<Record(<<"Shop B">>, <<>>, <<>>)>>)

----------------------------------------------------------------------------
(* refine_economy.py: the file is a list of rows, a cell a sequence of     *)
(* characters; "<xi>", "<cha>", "<nai>", "<suan>", "<mian>" stand for the  *)
(* Chinese characters of the word lists, "Y" for the yuan sign             *)

\* lines 12-22, an excerpt: CoCo, COSTA and the two-character brand at line 14
BRAND_BLACKLIST ==
    << <<"C", "o", "C", "o">>, <<"C", "O", "S", "T", "A">>, <<"<xi>", "<cha>">> >>

\* lines 26-29, an excerpt: the first and the ninth keyword
SHOP_KEYWORDS == << <<"<nai>", "<cha>">>, <<"<suan>", "<nai>">> >>

\* re.IGNORECASE on the letters that occur
LowerChar(c) ==
    CASE c = "C" -> "c" [] c = "O" -> "o" [] c = "S" -> "s"
      [] c = "T" -> "t" [] c = "A" -> "a" [] OTHER -> c

lower(s) == [i \in DOMAIN s |-> LowerChar(s[i])]

\* the word occurs in the text, letter case ignored
Contains(s, w) ==
    \E i \in 1..(Len(s) - Len(w) + 1) :
        SubSeq(lower(s), i, i + Len(w) - 1) = lower(w)

\* line 33: the alternation of the escaped words
compile_pattern(words) == {words[k] : k \in DOMAIN words}

\* Series.str.contains on one name
str_contains(s, pat) == \E w \in pat : Contains(s, w)

None == [none |-> TRUE]

Digits == {"0", "1", "2", "3", "4", "5", "6", "7", "8", "9"}

DigitVal(c) ==
    CASE c = "0" -> 0 [] c = "1" -> 1 [] c = "2" -> 2 [] c = "3" -> 3
      [] c = "4" -> 4 [] c = "5" -> 5 [] c = "6" -> 6 [] c = "7" -> 7
      [] c = "8" -> 8 [] c = "9" -> 9

RECURSIVE ToNat(_)
ToNat(ds) ==
    IF ds = <<>> THEN 0
    ELSE 10 * ToNat(SubSeq(ds, 1, Len(ds) - 1)) + DigitVal(ds[Len(ds)])

\* the last index of the run of digits that starts at i
RunEnd(s, i) ==
    CHOOSE j \in i..Len(s) :
        /\ \A k \in i..j : s[k] \in Digits
        /\ (j = Len(s) \/ s[j + 1] \notin Digits)

\* float(m.group(1)): the whole part and the digits after the point
Float(whole, frac) == [whole |-> whole, frac |-> frac]

\* lines 36-45: the first match of \d+(?:\.\d+)? , as a float
_parse_price(price_str) ==
    IF \A i \in DOMAIN price_str : price_str[i] \notin Digits THEN None
    ELSE LET i == CHOOSE n \in DOMAIN price_str :
                      /\ price_str[n] \in Digits
                      /\ \A k \in 1..(n - 1) : price_str[k] \notin Digits
             j == RunEnd(price_str, i)
             point == /\ j + 2 <= Len(price_str)
                      /\ price_str[j + 1] = "."
                      /\ price_str[j + 2] \in Digits
         IN  Float(ToNat(SubSeq(price_str, i, j)),
                   IF point THEN SubSeq(price_str, j + 2, RunEnd(price_str, j + 2))
                   ELSE <<>>)

\* line 76: the threshold
MinPrice == 20

\* a float is at least the whole number n
AtLeast(p, n) == p.whole >= n

CsvRow(name, avg_price, dishes) ==
    [name |-> name, avg_price |-> avg_price, recommended_dishes |-> dishes]

\* lines 67-71
brand_mask(row) == str_contains(row.name, compile_pattern(BRAND_BLACKLIST))

kw_mask(row) == str_contains(row.name, compile_pattern(SHOP_KEYWORDS))

remove_mask(row) == brand_mask(row) \/ kw_mask(row)

NotRemoved(row) == ~remove_mask(row)

\* price_mask with a row that has no number kept (fillna(True))
price_mask_KeepMissing(row) ==
    LET p == _parse_price(row.avg_price)
    IN  IF p = None THEN TRUE ELSE AtLeast(p, MinPrice)

\* lines 75-77: prices >= 20, and False where there is no price
price_mask(row) ==
    LET p == _parse_price(row.avg_price)
    IN  IF p = None THEN FALSE ELSE AtLeast(p, MinPrice)

\* a CSV file on disk
CsvFile(exists, rows) == [exists |-> exists, rows |-> rows]

MissingFile == CsvFile(FALSE, <<>>)

\* lines 48-82: the file after refine
refine(csv) ==
    IF ~csv.exists THEN csv
    ELSE LET kept_df == SelectSeq(csv.rows, NotRemoved)
             final_df == SelectSeq(kept_df, price_mask)
         IN  CsvFile(TRUE, final_df)

\* shop names: a brand in another letter case, a brand in Chinese, a
\* keyword inside a longer name, and a name that matches neither list
NameUniverse ==
    { <<"c", "o", "c", "o", "<cha>">>, <<"<xi>", "<cha>">>,
      <<"A", "<nai>", "<cha>">>, <<"C", "o", "<mian>">> }

\* price cells: empty, without a number, below, at and above the threshold
PriceUniverse ==
    { <<>>, <<"-">>, <<"Y", "1", "9", ".", "9">>, <<"Y", "2", "0">>, <<"Y", "3", "5">> }

RowUniverse ==
    { CsvRow(n, p, <<"d">>) : n \in NameUniverse, p \in PriceUniverse }

RefineInputs ==
    {MissingFile} \cup
    { CsvFile(TRUE, rows) : rows \in UNION {[1..n -> RowUniverse] : n \in 0..MaxRows} }

RefineInit ==
    /\ mode = "refine"
    /\ CrawlIdle
    /\ arg \in RefineInputs
    /\ result = NotRun
    /\ cat_files = <<>>
    /\ weights_file = NotRun
    /\ decisions = <<>>

\* lines 85-86: one run of refine on the file
RefineCall ==
    /\ mode = "refine"
    /\ result = NotRun
    /\ result' = Returned(refine(arg))
    /\ UNCHANGED <<crawl_vars, mode, arg, cat_files, weights_file, decisions>>

RefineNext == RefineCall

SpecRefine == RefineInit /\ [][RefineNext]_vars

C15_HasNumber(row) == \E i \in DOMAIN row.avg_price : row.avg_price[i] \in Digits

C15_Below(row) == C15_HasNumber(row) /\ ~AtLeast(_parse_price(row.avg_price), MinPrice)

C15_Brand(row) == \E k \in DOMAIN BRAND_BLACKLIST : Contains(row.name, BRAND_BLACKLIST[k])

C15_Keyword(row) == \E k \in DOMAIN SHOP_KEYWORDS : Contains(row.name, SHOP_KEYWORDS[k])

C15_KeptAsClaimed(row) == ~(C15_Brand(row) \/ C15_Below(row))

C15_Kept(row) ==
    ~(C15_Brand(row) \/ C15_Keyword(row) \/ ~C15_HasNumber(row) \/ C15_Below(row))

\* C15 as stated: refine removes a row if and only if its name matches the
\* brand blacklist or its numeric price is below 20; every other row, also
\* one whose price is empty or has no number, is kept, in the original order.
C15_RemovesOnlyBrandOrCheap ==
    (mode = "refine" /\ result # NotRun /\ arg.exists) =>
        result.value = CsvFile(TRUE, SelectSeq(arg.rows, C15_KeptAsClaimed))

(* C15, amended: refine removes a row if and only if its name matches the  *)
(* brand blacklist or the shop-keyword list, or its price has no number,   *)
(* or its numeric price is below 20; every other row is kept, in the       *)
(* original order.  A missing file stays missing.                          *)
C15_RefineRule ==
    (mode = "refine" /\ result # NotRun) =>
        IF arg.exists
        THEN result.value = CsvFile(TRUE, SelectSeq(arg.rows, C15_Kept))
        ELSE result.value = arg

\* a row at the threshold is kept and the row without a price behind it is removed
C15_Witness ==
    /\ mode = "refine"
    /\ arg = CsvFile(TRUE, << CsvRow(<<"C", "o", "<mian>">>, <<"Y", "2", "0">>, <<"d">>),
                              CsvRow(<<"C", "o", "<mian>">>, <<>>, <<"d">>) >>)
    /\ result = Returned(CsvFile(TRUE,
                    << CsvRow(<<"C", "o", "<mian>">>, <<"Y", "2", "0">>, <<"d">>) >>))

----------------------------------------------------------------------------
(* app.py: the weights file, the three category files and the decisions    *)
(* log; a cell is a text as in the crawler (a sequence of chunks)          *)

\* lines 46-50: the keys of CATEGORIES, in their order
CATEGORIES == <<"economy", "medium", "top">>

CATEGORY_BY_KEY == {CATEGORIES[i] : i \in DOMAIN CATEGORIES}

\* lines 79-81
_default_weights == [economy |-> 7, medium |-> 2, top |-> 1]

Max(a, b) == IF a >= b THEN a ELSE b

\* dict.get(k, default)
Get(d, k, default) == IF k \in DOMAIN d THEN d[k] ELSE default

\* weights.json: absent, not loadable (no JSON, no object, or a value that
\* int() rejects), or a JSON object of integers
WeightsMissing == [kind |-> "missing"]

WeightsUnreadable == [kind |-> "unreadable"]

WeightsJson(data) == [kind |-> "json", data |-> data]

Sum3(w) == w["economy"] + w["medium"] + w["top"]

\* _load_weights with the all-zero fallback left out
_load_weights_KeepZero(file) ==
    IF file.kind # "json" THEN _default_weights
    ELSE [k \in CATEGORY_BY_KEY |-> Max(0, Get(file.data, k, 0))]

\* lines 87-99
_load_weights(file) ==
    IF file.kind = "missing" THEN _default_weights
    ELSE IF file.kind = "unreadable" THEN _default_weights
    ELSE LET weights == [k \in CATEGORY_BY_KEY |-> Max(0, Get(file.data, k, 0))]
         IN  IF Sum3(weights) <= 0 THEN _default_weights ELSE weights

\* lines 102-104: the file after the save
_save_weights(weights) ==
    WeightsJson([k \in CATEGORY_BY_KEY |-> Max(0, Get(weights, k, 0))])

\* a weight_<key> request value: not sent, not an integer, or an integer
RawAbsent == [kind |-> "absent", val |-> 0]

RawBad == [kind |-> "bad", val |-> 0]

RawInt(n) == [kind |-> "int", val |-> n]

\* lines 107-118; raw maps each key to its request value
_parse_weights_from_request(raw) ==
    [k \in CATEGORY_BY_KEY |->
        LET default_val == _default_weights[k]
            val == IF raw[k].kind = "int" THEN raw[k].val ELSE default_val
        IN  Max(0, val)]

\* PairWeight without the max(0, .)
PairWeight_Signed(weights, n) == Get(weights, CATEGORIES[n], 0)

\* line 57: the weight of the n-th known category, never negative
PairWeight(weights, n) == Max(0, Get(weights, CATEGORIES[n], 0))

RECURSIVE Cursor(_, _)
\* lines 62-64: cursor after the n-th pair
Cursor(weights, n) ==
    IF n = 0 THEN 0 ELSE Cursor(weights, n - 1) + PairWeight(weights, n)

\* line 58
Total(weights) == Cursor(weights, Len(CATEGORIES))

NoCategory == "none"

\* lines 55-67, for the threshold that random.randint gave
choose_category_by_weights(weights, threshold) ==
    IF Total(weights) <= 0 THEN NoCategory
    ELSE IF \E n \in DOMAIN CATEGORIES : threshold <= Cursor(weights, n)
         THEN CATEGORIES[CHOOSE n \in DOMAIN CATEGORIES :
                            /\ threshold <= Cursor(weights, n)
                            /\ \A m \in 1..(n - 1) : threshold > Cursor(weights, m)]
         ELSE NoCategory

\* line 61: the values random.randint(1, total) can give
Thresholds(weights) == IF Total(weights) <= 0 THEN {0} ELSE 1..Total(weights)

\* a category file: absent, or a header and its rows
CatFile(exists, header, rows) == [exists |-> exists, header |-> header, rows |-> rows]

NoFile == CatFile(FALSE, <<>>, <<>>)

\* lines 35-37, 270-271: (s or "").strip()
_norm(s) == strip(s)

\* lines 24-43
load_items(file) ==
    IF ~file.exists THEN <<>>
    ELSE [i \in DOMAIN file.rows |->
            CsvRow(_norm(file.rows[i].name), _norm(file.rows[i].avg_price),
                   _norm(file.rows[i].recommended_dishes))]

\* the submitted fields of a confirm or remove form
Shop(name, avg_price, dishes) == CsvRow(name, avg_price, dishes)

\* lines 277-279 with the name alone compared
SameShop_NameOnly(r, shop) == _norm(r.name) = _norm(shop.name)

\* lines 277-279
SameShop(r, shop) ==
    /\ _norm(r.name) = _norm(shop.name)
    /\ _norm(r.avg_price) = _norm(shop.avg_price)
    /\ _norm(r.recommended_dishes) = _norm(shop.recommended_dishes)

RECURSIVE KeptRows(_, _)
\* lines 274-281
KeptRows(rows, shop) ==
    IF rows = <<>> THEN <<>>
    ELSE IF SameShop(Head(rows), shop) THEN KeptRows(Tail(rows), shop)
    ELSE <<Head(rows)>> \o KeptRows(Tail(rows), shop)

\* lines 259-294: the number of rows removed and the files afterwards
_remove_shop_from_category(files, category_key, shop) ==
    IF category_key \notin CATEGORY_BY_KEY \/ ~files[category_key].exists
    THEN [removed |-> 0, files |-> files]
    ELSE LET rows == files[category_key].rows
             kept == KeptRows(rows, shop)
             removed == Len(rows) - Len(kept)
         IN  [removed |-> removed,
              files |-> IF removed > 0
                        THEN [files EXCEPT ![category_key] = CatFile(TRUE, Header, kept)]
                        ELSE files]

\* line 216, line 309: the request is refused
Incomplete(category_key, shop) ==
    category_key \notin CATEGORY_BY_KEY \/ shop.name = <<>>

\* lines 47-49: the display names
DisplayName(category_key) ==
    CASE category_key = "economy" -> "<jingjican>"
      [] category_key = "medium" -> "<zhongdangcan>"
      [] category_key = "top" -> "<gaodangcan>"
      [] OTHER -> category_key

\* decisions.csv: absent, or its lines
NoLog == [exists |-> FALSE, rows |-> <<>>]

\* line 191
DecisionHeader ==
    [kind |-> "header",
     cells |-> << <<"timestamp">>, <<"category_key">>, <<"category_name">>,
                  <<"name">>, <<"avg_price">>, <<"recommended_dishes">> >>]

\* lines 193-200; the clock reading is not followed
DecisionRow(category_key, shop) ==
    [kind |-> "row",
     cells |-> << <<"now">>, <<category_key>>, <<DisplayName(category_key)>>,
                  shop.name, shop.avg_price, shop.recommended_dishes >>]

\* lines 183-201: the log after the append
_append_decision(log, category_key, shop) ==
    [exists |-> TRUE,
     rows |-> (IF log.exists THEN log.rows ELSE <<DecisionHeader>>)
              \o <<DecisionRow(category_key, shop)>>]

\* Lowered with every weight taken down by one
Lowered_All(file, category_key) ==
    LET weights_now == _load_weights(file)
    IN  [k \in DOMAIN weights_now |-> Max(0, weights_now[k] - 1)]

\* lines 222-224: the dictionary handed to _save_weights by confirm
Lowered(file, category_key) ==
    LET weights_now == _load_weights(file)
        current_val == Get(weights_now, category_key, _default_weights[category_key])
    IN  [weights_now EXCEPT ![category_key] = Max(0, current_val - 1)]

\* rows of a category file: a shop, the same shop with padded cells, and
\* the same shop at another price
RowA == CsvRow(<<"Shop A">>, <<"Y35">>, <<"Dish1">>)

RowAPadded == CsvRow(<<" ", "Shop A", " ">>, <<"Y35", " ">>, <<"Dish1">>)

RowACheap == CsvRow(<<"Shop A">>, <<"Y30">>, <<"Dish1">>)

CatRowUniverse == {RowA, RowAPadded, RowACheap}

\* submitted forms: the shop, the shop with a padded name, a shop that is
\* in no file, and a form without a name
FormA == Shop(<<"Shop A">>, <<"Y35">>, <<"Dish1">>)

FormAPadded == Shop(<<"Shop A", " ">>, <<"Y35">>, <<"Dish1">>)

FormZ == Shop(<<"Shop Z">>, <<"Y35">>, <<"Dish1">>)

FormNoName == Shop(<<>>, <<"Y35">>, <<"Dish1">>)

Forms == {FormA, FormAPadded, FormZ, FormNoName}

RequestKeys == CATEGORY_BY_KEY \cup {"bogus"}

RawWeights == {RawAbsent, RawBad, RawInt(-1), RawInt(1)}

\* the dictionaries _parse_weights_from_request can give
ParsedWeights ==
    { _parse_weights_from_request(raw) : raw \in [CATEGORY_BY_KEY -> RawWeights] }

\* weights.json as the serving layer can find it
WeightFiles ==
    { WeightsMissing, WeightsUnreadable,
      WeightsJson([economy |-> 0, medium |-> 0, top |-> 0]),
      WeightsJson([economy |-> -3, bogus |-> 4]),
      WeightsJson([top |-> 2]) }

\* a request with a form
Form(category_key, shop) == [category_key |-> category_key, shop |-> shop]

\* what a handler answered
Answer(route, err) == [route |-> route, error |-> err]

\* the serving layer is started on one shop list per category
AppInit ==
    /\ mode = "app"
    /\ CrawlIdle
    /\ arg = NotRun
    /\ result = NotRun
    /\ cat_files = [economy |-> CatFile(TRUE, Header, <<RowA, RowACheap>>),
                    medium |-> CatFile(TRUE, Header, <<>>),
                    top |-> NoFile]
    /\ weights_file \in WeightFiles
    /\ decisions = NoLog

\* lines 136-143, 165-169: the error of a draw
DrawError(chosen_category) ==
    IF chosen_category = NoCategory THEN "invalid_weights"
    ELSE IF load_items(cat_files[chosen_category]) = <<>> THEN "empty_category"
    ELSE "none"

\* the errors a draw with these weights can end with, over the thresholds
DrawErrors(weights) ==
    { DrawError(choose_category_by_weights(weights, threshold)) :
        threshold \in Thresholds(weights) }

\* lines 121-157, GET
IndexGet ==
    /\ mode = "app"
    /\ arg' = NotRun
    /\ result' = Returned(Answer("index", "none"))
    /\ UNCHANGED <<crawl_vars, mode, cat_files, weights_file, decisions>>

\* lines 121-157, POST: the weights of the form are saved, then one draw
IndexPost ==
    /\ mode = "app"
    /\ \E weights \in ParsedWeights :
          /\ weights_file' = _save_weights(weights)
          /\ \E err \in DrawErrors(weights) : result' = Returned(Answer("draw", err))
    /\ arg' = NotRun
    /\ UNCHANGED <<crawl_vars, mode, cat_files, decisions>>

\* lines 160-180
api_draw ==
    /\ mode = "app"
    /\ \E weights \in ParsedWeights :
          \E err \in DrawErrors(weights) : result' = Returned(Answer("api_draw", err))
    /\ arg' = NotRun
    /\ UNCHANGED <<crawl_vars, mode, cat_files, weights_file, decisions>>

\* lines 204-239
confirm ==
    /\ mode = "app"
    /\ Len(decisions.rows) <= MaxDecisions
    /\ \E category_key \in RequestKeys, shop \in {FormA, FormNoName} :
          /\ arg' = Form(category_key, shop)
          /\ IF Incomplete(category_key, shop)
             THEN /\ result' = Returned(Answer("confirm", "incomplete"))
                  /\ UNCHANGED <<decisions, weights_file>>
             ELSE /\ decisions' = _append_decision(decisions, category_key, shop)
                  /\ weights_file' = _save_weights(Lowered(weights_file, category_key))
                  /\ result' = Returned(Answer("confirm", "none"))
    /\ UNCHANGED <<crawl_vars, mode, cat_files>>

\* lines 242-256
reset_weights ==
    /\ mode = "app"
    /\ weights_file' = _save_weights(_default_weights)
    /\ arg' = NotRun
    /\ result' = Returned(Answer("reset", "none"))
    /\ UNCHANGED <<crawl_vars, mode, cat_files, decisions>>

\* lines 297-329
remove_shop ==
    /\ mode = "app"
    /\ \E category_key \in RequestKeys, shop \in Forms :
          /\ arg' = Form(category_key, shop)
          /\ IF Incomplete(category_key, shop)
             THEN /\ result' = Returned(Answer("remove", "incomplete"))
                  /\ UNCHANGED cat_files
             ELSE LET done == _remove_shop_from_category(cat_files, category_key, shop)
                  IN  /\ cat_files' = done.files
                      /\ result' = Returned(Answer("remove",
                                        IF done.removed > 0 THEN "none" ELSE "not_found"))
    /\ UNCHANGED <<crawl_vars, mode, weights_file, decisions>>

AppNext == IndexGet \/ IndexPost \/ api_draw \/ confirm \/ reset_weights \/ remove_shop

SpecApp == AppInit /\ [][AppNext]_vars

\* removal requests alone, over every short economy list
RemoveInit ==
    /\ mode = "app"
    /\ CrawlIdle
    /\ arg = NotRun
    /\ result = NotRun
    /\ \E economy \in {NoFile} \cup
            { CatFile(TRUE, Header, rows) :
                rows \in UNION {[1..n -> CatRowUniverse] : n \in 0..MaxCatRows} } :
          cat_files = [economy |-> economy,
                       medium |-> CatFile(TRUE, Header, <<RowA>>),
                       top |-> NoFile]
    /\ weights_file \in WeightFiles
    /\ decisions = NoLog

RemoveNext == remove_shop

SpecRemove == RemoveInit /\ [][RemoveNext]_vars

C16_Same(r, shop) ==
    /\ strip(r.name) = strip(shop.name)
    /\ strip(r.avg_price) = strip(shop.avg_price)
    /\ strip(r.recommended_dishes) = strip(shop.recommended_dishes)

\* the rows of after are the rows of before that differ from shop, in order
C16_OthersKept(before, after, shop) ==
    LET others == {i \in DOMAIN before : ~C16_Same(before[i], shop)}
    IN  /\ DOMAIN after = 1..Cardinality(others)
        /\ \A i \in others :
              after[Cardinality({m \in others : m < i}) + 1] = before[i]

C16_Step ==
    (result'.value.route = "remove") =>
        LET key == arg'.category_key
            shop == arg'.shop
            valid == key \in {"economy", "medium", "top"} /\ shop.name # <<>>
            hit == /\ valid
                   /\ cat_files[key].exists
                   /\ \E i \in DOMAIN cat_files[key].rows :
                         C16_Same(cat_files[key].rows[i], shop)
        IN  /\ weights_file' = weights_file
            /\ decisions' = decisions
            /\ IF hit
               THEN /\ \A k \in DOMAIN cat_files \ {key} : cat_files'[k] = cat_files[k]
                    /\ cat_files'[key].exists
                    /\ cat_files'[key].header =
                          << <<"name">>, <<"avg_price">>, <<"recommended_dishes">> >>
                    /\ C16_OthersKept(cat_files[key].rows, cat_files'[key].rows, shop)
               ELSE cat_files' = cat_files

C20_WellFormed(file) ==
    /\ file.kind = "json"
    /\ DOMAIN file.data = {"economy", "medium", "top"}
    /\ \A k \in DOMAIN file.data : file.data[k] \in Nat

C20_AllZero(file) ==
    /\ file.kind = "json"
    /\ \A k \in {"economy", "medium", "top"} :
          k \in DOMAIN file.data => file.data[k] <= 0

\* the last request saved the weights
C20_Saved ==
    /\ result # NotRun
    /\ \/ result.value.route \in {"draw", "reset"}
       \/ result.value = Answer("confirm", "none")

C20_State ==
    LET loaded == _load_weights(weights_file)
    IN  /\ DOMAIN loaded = {"economy", "medium", "top"}
        /\ \A k \in DOMAIN loaded : loaded[k] \in Nat
        /\ \E k \in DOMAIN loaded : loaded[k] > 0
        /\ (weights_file.kind \in {"missing", "unreadable"} \/ C20_AllZero(weights_file))
              => loaded = [economy |-> 7, medium |-> 2, top |-> 1]
        /\ C20_Saved => C20_WellFormed(weights_file)

C20_Step ==
    /\ weights_file' # weights_file => C20_WellFormed(weights_file')
    /\ C20_WellFormed(weights_file) => C20_WellFormed(weights_file')

(* C20: after any sequence of draw (POST /), confirm and reset requests    *)
(* the weights file the serving layer wrote has exactly the keys economy,  *)
(* medium and top with integers >= 0, and _load_weights never returns      *)
(* weights that are all zero: a missing, unreadable or all-zero file loads *)
(* as 7:2:1.                                                               *)
C20_WeightsKept == [](mode = "app" => C20_State) /\ [][C20_Step]_vars

\* a confirmation took the last weight away: the file holds 0:0:0 and loads as 7:2:1
C20_Witness ==
    /\ mode = "app"
    /\ result = Returned(Answer("confirm", "none"))
    /\ weights_file = WeightsJson([economy |-> 0, medium |-> 0, top |-> 0])
    /\ _load_weights(weights_file) = _default_weights

----------------------------------------------------------------------------
(* choose_category_by_weights on its own, over every small dictionary and  *)
(* every threshold random.randint can give for it                          *)

\* dictionaries over any of the keys, a foreign one included, with
\* negative, zero and positive weights
ChooseWeights ==
    UNION { [keys -> -1..MaxWeight] : keys \in SUBSET RequestKeys }

ChooseInit ==
    /\ mode = "choose"
    /\ CrawlIdle
    /\ \E weights \in ChooseWeights, threshold \in 0..(3 * MaxWeight) :
          /\ threshold \in Thresholds(weights)
          /\ arg = [weights |-> weights, threshold |-> threshold]
    /\ result = NotRun
    /\ cat_files = <<>>
    /\ weights_file = NotRun
    /\ decisions = <<>>

\* lines 55-67: one call
ChooseCall ==
    /\ mode = "choose"
    /\ result = NotRun
    /\ result' = Returned(choose_category_by_weights(arg.weights, arg.threshold))
    /\ UNCHANGED <<crawl_vars, mode, arg, cat_files, weights_file, decisions>>

ChooseNext == ChooseCall

SpecChoose == ChooseInit /\ [][ChooseNext]_vars

\* the weight of key k as far as it counts: known, present and above zero
C21_Counted(weights, k) ==
    IF k \in DOMAIN weights /\ weights[k] > 0 THEN weights[k] ELSE 0

C21_Sum(weights) ==
    C21_Counted(weights, "economy") + C21_Counted(weights, "medium")
        + C21_Counted(weights, "top")

(* C21: choose_category_by_weights returns no category exactly when the    *)
(* non-negative weights of the known categories sum to 0; otherwise, for   *)
(* every threshold in 1..total, it returns a known category whose weight   *)
(* is strictly positive.                                                   *)
C21_ChoosesPositive ==
    (mode = "choose" /\ result # NotRun) =>
        LET chosen == result.value
        IN  /\ (chosen = "none") <=> (C21_Sum(arg.weights) = 0)
            /\ C21_Sum(arg.weights) > 0 =>
                  /\ arg.threshold \in 1..C21_Sum(arg.weights)
                  /\ chosen \in {"economy", "medium", "top"}
                  /\ chosen \in DOMAIN arg.weights
                  /\ arg.weights[chosen] > 0

\* the categories at weight 0 and below are passed over and the last one is drawn
C21_Witness ==
    /\ mode = "choose"
    /\ arg = [weights |-> [economy |-> 0, medium |-> -1, top |-> 2, bogus |-> 2],
              threshold |-> 1]
    /\ result = Returned("top")

----------------------------------------------------------------------------
(* confirm, checked on every step of the serving layer that it takes *)

\* the lines of the log before the step, the header included once it exists
C22_Before == IF decisions.exists THEN decisions.rows ELSE <<DecisionHeader>>

C22_Step ==
    (result'.value.route = "confirm") =>
        LET key == arg'.category_key
            shop == arg'.shop
            valid == key \in {"economy", "medium", "top"} /\ shop.name # <<>>
            loaded == _load_weights(weights_file)
            n == Len(C22_Before)
        IN  IF valid
            THEN /\ decisions'.exists
                 /\ Len(decisions'.rows) = n + 1
                 /\ SubSeq(decisions'.rows, 1, n) = C22_Before
                 /\ decisions'.rows[n + 1].kind = "row"
                 /\ decisions'.rows[n + 1].cells[2] = <<key>>
                 /\ decisions'.rows[n + 1].cells[4] = shop.name
                 /\ decisions'.rows[n + 1].cells[5] = shop.avg_price
                 /\ decisions'.rows[n + 1].cells[6] = shop.recommended_dishes
                 /\ weights_file'.kind = "json"
                 /\ DOMAIN weights_file'.data = {"economy", "medium", "top"}
                 /\ weights_file'.data[key] =
                       (IF loaded[key] >= 1 THEN loaded[key] - 1 ELSE 0)
                 /\ \A k \in {"economy", "medium", "top"} \ {key} :
                       weights_file'.data[k] = loaded[k]
            ELSE /\ decisions' = decisions
                 /\ weights_file' = weights_file

(* C22: a confirm with a known category key and a non-empty name appends   *)
(* exactly one row to the decisions log (after the header, which is        *)
(* written when the log is new) and stores the loaded weight of that       *)
(* category lowered by 1, never below 0, with the other two weights as     *)
(* loaded; a confirm with an unknown category or an empty name appends     *)
(* nothing and leaves the stored weights unchanged.                        *)
C22_ConfirmEffect == [][C22_Step]_vars

\* a second confirmation that leaves its category at 0: the row is added
\* behind the first one and the other two weights are as loaded
C22_Witness ==
    /\ mode = "app"
    /\ result = Returned(Answer("confirm", "none"))
    /\ arg = Form("economy", FormA)
    /\ Len(decisions.rows) = 3
    /\ weights_file = WeightsJson([economy |-> 0, medium |-> 2, top |-> 1])

====
